---- MODULE Spec2Model ----
(***************************************************************************)
(* The server side of dnsproxycommand: the packet dispatcher               *)
(* (handlePacket), the three handlers (handleNewConn, handleForward,       *)
(* handleReverse), the session table (newConn, getConn, deleteConn,        *)
(* pruneConns, closeConn) and the two caches, as a state machine of        *)
(* concurrent workers, one per datagram, a pruner and the close            *)
(* goroutines.                                                             *)
(*                                                                         *)
(* Strings are sequences of one-character strings, byte slices are         *)
(* sequences of numbers 0..255, durations and instants are clock ticks.    *)
(***************************************************************************)
EXTENDS Integers, Sequences, FiniteSets, TLC

(***************************************************************************)
(* Bounds of the model.                                                    *)
(***************************************************************************)
NumWorkers == 2   \* datagrams handled at the same time
MaxTime == 3      \* last tick of the clock
MaxCtr == 1       \* largest counter a client sends
MaxConns == 2     \* upstream connections dialled in a run
MaxStdin == 2     \* bytes the client reads from stdin
MaxPolls == 3     \* queries of the reverse pump

(***************************************************************************)
(* strings, strconv                                                        *)
(***************************************************************************)
Digits36 ==
  << "0", "1", "2", "3", "4", "5", "6", "7", "8", "9",
     "a", "b", "c", "d", "e", "f", "g", "h", "i", "j", "k", "l", "m",
     "n", "o", "p", "q", "r", "s", "t", "u", "v", "w", "x", "y", "z" >>

UpperCase ==
  << "A", "B", "C", "D", "E", "F", "G", "H", "I", "J", "K", "L", "M",
     "N", "O", "P", "Q", "R", "S", "T", "U", "V", "W", "X", "Y", "Z" >>

IndexIn(tab, ch) == IF \E i \in 1..Len(tab) : tab[i] = ch
                    THEN CHOOSE i \in 1..Len(tab) : tab[i] = ch
                    ELSE 0

ToLowerCh(ch) == IF IndexIn(UpperCase, ch) > 0
                 THEN Digits36[10 + IndexIn(UpperCase, ch)]
                 ELSE ch

ToUpperCh(ch) == IF IndexIn(Digits36, ch) > 10
                 THEN UpperCase[IndexIn(Digits36, ch) - 10]
                 ELSE ch

ToLower(s) == [i \in 1..Len(s) |-> ToLowerCh(s[i])]

ToUpper(s) == [i \in 1..Len(s) |-> ToUpperCh(s[i])]

HasSuffix(s, suf) ==
  /\ Len(s) >= Len(suf)
  /\ SubSeq(s, Len(s) - Len(suf) + 1, Len(s)) = suf

TrimSuffix(s, suf) == IF HasSuffix(s, suf)
                      THEN SubSeq(s, 1, Len(s) - Len(suf))
                      ELSE s

\* strings.Split(s, "."): always at least one element.
RECURSIVE Split(_)
Split(s) ==
  IF \E i \in 1..Len(s) : s[i] = "."
  THEN LET i == CHOOSE j \in 1..Len(s) :
                  s[j] = "." /\ \A h \in 1..(j - 1) : s[h] # "."
       IN <<SubSeq(s, 1, i - 1)>> \o Split(SubSeq(s, i + 1, Len(s)))
  ELSE <<s>>

\* The value a failed parse returns instead of a number.
ParseErr == -1

\* The value of a digit in the given base, or ParseErr.
DigitVal(ch, base) ==
  LET v == IndexIn(Digits36, ToLowerCh(ch)) - 1
  IN IF v >= 0 /\ v < base THEN v ELSE ParseErr

RECURSIVE ParseDigits(_, _, _)
ParseDigits(s, base, acc) ==
  IF s = <<>> THEN acc
  ELSE IF DigitVal(Head(s), base) = ParseErr THEN ParseErr
  ELSE ParseDigits(Tail(s), base, acc * base + DigitVal(Head(s), base))

\* strconv.ParseUint(s, base, 64); the strings of the model are too short
\* to leave the 64-bit range.
ParseUint(s, base) == IF s = <<>> THEN ParseErr ELSE ParseDigits(s, base, 0)

\* strconv.FormatUint(n, 36)
RECURSIVE FormatUint(_)
FormatUint(n) ==
  IF n < 36 THEN <<Digits36[n + 1]>>
  ELSE FormatUint(n \div 36) \o <<Digits36[(n % 36) + 1]>>

(***************************************************************************)
(* encoding/base32 (decoding, no padding) and encoding/base64 (encoding,   *)
(* no padding)                                                             *)
(***************************************************************************)
B32Alphabet ==
  << "A", "B", "C", "D", "E", "F", "G", "H", "I", "J", "K", "L", "M",
     "N", "O", "P", "Q", "R", "S", "T", "U", "V", "W", "X", "Y", "Z",
     "2", "3", "4", "5", "6", "7" >>

B64Alphabet ==
  << "A", "B", "C", "D", "E", "F", "G", "H", "I", "J", "K", "L", "M",
     "N", "O", "P", "Q", "R", "S", "T", "U", "V", "W", "X", "Y", "Z",
     "a", "b", "c", "d", "e", "f", "g", "h", "i", "j", "k", "l", "m",
     "n", "o", "p", "q", "r", "s", "t", "u", "v", "w", "x", "y", "z",
     "0", "1", "2", "3", "4", "5", "6", "7", "8", "9", "+", "/" >>

\* What dec returns for a string that is not base32.
DecErr == <<-1>>

\* dec on a payload of at most one two-character quantum: every character
\* is looked up in the alphabet, two characters give one byte.
dec(s) ==
  IF \E i \in 1..Len(s) : IndexIn(B32Alphabet, s[i]) = 0 THEN DecErr
  ELSE IF Len(s) = 0 THEN <<>>
  ELSE IF Len(s) = 2
       THEN << ((IndexIn(B32Alphabet, s[1]) - 1) * 8
                + ((IndexIn(B32Alphabet, s[2]) - 1) \div 4)) % 256 >>
  ELSE DecErr

\* base64.RawStdEncoding.EncodeToString
RECURSIVE EncodeToString(_)
EncodeToString(b) ==
  IF Len(b) = 0 THEN <<>>
  ELSE IF Len(b) = 1
       THEN << B64Alphabet[(b[1] \div 4) + 1],
               B64Alphabet[((b[1] % 4) * 16) + 1] >>
  ELSE IF Len(b) = 2
       THEN << B64Alphabet[(b[1] \div 4) + 1],
               B64Alphabet[((b[1] % 4) * 16 + (b[2] \div 16)) + 1],
               B64Alphabet[((b[2] % 16) * 4) + 1] >>
  ELSE << B64Alphabet[(b[1] \div 4) + 1],
          B64Alphabet[((b[1] % 4) * 16 + (b[2] \div 16)) + 1],
          B64Alphabet[((b[2] % 16) * 4 + (b[3] \div 64)) + 1],
          B64Alphabet[(b[3] % 64) + 1] >>
       \o EncodeToString(SubSeq(b, 4, Len(b)))

\* []byte(id): the bytes of a string of base-36 digits.
Bytes(s) ==
  [i \in 1..Len(s) |->
     IF IndexIn(Digits36, s[i]) <= 10
     THEN 48 + IndexIn(Digits36, s[i]) - 1
     ELSE 97 + IndexIn(Digits36, s[i]) - 11]

(***************************************************************************)
(* Configuration and inputs                                                *)
(***************************************************************************)
\* domainName for -domain d
domainName == << ".", "d", "." >>

\* maxTSOff, in clock ticks
maxTSOff == 1

\* -prune-interval, in clock ticks
pruneInterval == 1

\* The seed of connNextID: the ids of the model are "z", "10", "11", ...
connNextIDInit == 35

\* ansCacheSize, scaled down to one entry so that the cache fills.
ansCacheSize == 1

\* tsCacheSize, scaled down like ansCacheSize.
tsCacheSize == 1

\* strings.Join(labels, ".") followed by the parent domain
RECURSIVE Join(_)
Join(labels) ==
  IF Len(labels) = 1 THEN labels[1]
  ELSE labels[1] \o <<".">> \o Join(Tail(labels))

QName(labels) == Join(labels) \o domainName

Workers == 1..NumWorkers

\* The counters, timestamps and payloads clients put in their queries, and
\* the id of the first connection.
Counters == { FormatUint(i) : i \in 0..MaxCtr }

Timestamps == { << "1" >>, << "2" >> }

Payload == << "a", "a" >>

FirstId == FormatUint(connNextIDInit)

\* A datagram as handlePacket sees it after Unpack.
Packet(name) ==
  [ok |-> TRUE, questions |-> 1, type |-> "TXT", response |-> FALSE,
   name |-> name, addr |-> "none"]

\* Handshakes: two timestamps, and one that is no number.
HandshakePackets ==
  { Packet(QName(<<t>>)) : t \in Timestamps \cup { << "x" >> } }
    \cup { Packet(domainName) }

FirstHandshake == { Packet(QName(<< <<"1">> >>)) }

\* Forward queries for the first connection, one with a payload that is
\* not base32, and one for an id the server never gives out.
ForwardPackets ==
  { Packet(QName(<<c, Payload, FirstId>>)) : c \in Counters }
    \cup { Packet(QName(<< <<"0">>, <<"1">>, FirstId >>)),
           Packet(QName(<< <<"0">>, Payload, <<"y">> >>)) }

\* Reverse queries for the first connection, one in upper case, and one
\* for an id the server never gives out.
ReversePackets ==
  { Packet(QName(<<c, FirstId>>)) : c \in Counters }
    \cup { Packet(QName(<< <<"0">>, ToUpper(FirstId) >>)),
           Packet(QName(<< <<"0">>, <<"y">> >>)) }

\* Datagrams handlePacket drops.
BadPackets ==
  { [Packet(QName(<< <<"0">>, FirstId >>)) EXCEPT !.ok = FALSE],
    [Packet(QName(<< <<"0">>, FirstId >>)) EXCEPT !.questions = 2],
    [Packet(QName(<< <<"0">>, FirstId >>)) EXCEPT !.type = "A"],
    [Packet(QName(<< <<"0">>, FirstId >>)) EXCEPT !.response = TRUE],
    Packet(<< "0", ".", "z", ".", "e", "." >>),
    Packet(QName(<< <<"0">>, Payload, FirstId, FirstId >>)) }

\* The datagrams of the whole server: one query of each kind for the first
\* connection, in lower and in upper case, and the dropped ones.
ServerPackets ==
  FirstHandshake
    \cup { Packet(QName(<< <<"0">>, Payload, FirstId >>)),
           Packet(QName(<< <<"0">>, ToUpper(Payload), ToUpper(FirstId) >>)),
           Packet(QName(<< <<"0">>, FirstId >>)),
           Packet(QName(<< <<"0">>, ToUpper(FirstId) >>)) }
    \cup BadPackets

\* What a read of the upstream socket can return: (n, err).
ReadResults ==
  { [buf |-> << 119 >>, err |-> "nil"],
    [buf |-> << >>, err |-> "timeout"],
    [buf |-> << >>, err |-> "EOF"],
    [buf |-> << >>, err |-> "nil"] }

\* The same for the upstream of the client's conn, which sends w, x, y, ...:
\* what a read can return after n bytes were read.
UpstreamReads(n) ==
  { [r EXCEPT !.buf = IF r.buf = << >> THEN << >> ELSE << 119 + n >>] :
      r \in ReadResults }

(***************************************************************************)
(* State                                                                   *)
(***************************************************************************)
VARIABLES
  now,          \* the wall clock, time.Now()
  conns,        \* conns: id -> conn, as an index into heap
  connNextID,   \* connNextID
  heap,         \* every conn made by newConn, in the order of the dials
  seenTSCache,  \* the keys of seenTSCache
  ansCache,     \* ansCache: query name -> reply
  closing,      \* the conns with a closeConn goroutine not yet run
  pruneLast,    \* last in pruneConns
  wk,           \* the workers: the goroutines the read loop starts
  fwdLog,       \* per conn, the counters of the requests written upstream
  revLog,       \* per conn, the counters of the requests read from upstream
  closeCount,   \* per conn, the number of calls of c.c.Close
  issued,       \* the ids newConn returned, in order
  origin,       \* per conn, the timestamp label of the request that made it
  refused,      \* the timestamp labels of the requests whose net.Dial failed
  broken,       \* the conns whose upstream write or read has failed
  upstream,     \* the bytes the requests of the client wrote to and read from
                \* the upstream socket
  connsL,       \* connsL: the goroutine that holds it locked and those that
                \* hold it read-locked
  sent,         \* the last response written by pc.WriteTo
  net,          \* per client goroutine, its query and the reply in flight
  client,       \* the client struct and the locals of Client and its pumps
  done,         \* the done channel of Client
  stdio         \* the bytes read from stdin and written to stdout so far

\* The variables only the client changes.
cvars == << client, done, stdio >>

vars == << now, conns, connNextID, heap, seenTSCache, ansCache, closing,
           pruneLast, wk, fwdLog, revLog, closeCount, issued, origin, refused,
           broken, upstream, connsL,
           sent, net, client, done, stdio >>

\* new(conn) after a successful dial: zero last, zero counters, free locks.
\* A conn whose last newConn sets to the time of the dial.
NewConnObjStamped ==
  [last |-> now, timeL |-> 0,
   nextFwd |-> 0, nextFwdL |-> 0,
   nextRev |-> 0, nextRevL |-> 0,
   c |-> "open"]

NewConnObj ==
  [last |-> 0, timeL |-> 0,
   nextFwd |-> 0, nextFwdL |-> 0,
   nextRev |-> 0, nextRevL |-> 0,
   c |-> "open"]

\* Replies: what the deferred function of handlePacket sends back.
NoResponse == [rcode |-> "none", txt |-> << >>]
NXDomain == [rcode |-> "NXDOMAIN", txt |-> << >>]
TXT(r) == [rcode |-> "NOERROR", txt |-> r]

NoRead == [buf |-> << >>, err |-> "nil"]

IdleWorker ==
  [pc |-> "idle", qn |-> << >>, c |-> 0, res |-> NoRead, reply |-> NoResponse,
   addr |-> "none"]

InitServer ==
  /\ now = 1
  /\ conns = [i \in {} |-> 0]
  /\ connNextID = connNextIDInit
  /\ heap = << >>
  /\ seenTSCache = {}
  /\ ansCache = [q \in {} |-> NXDomain]
  /\ closing = {}
  /\ pruneLast = 1
  /\ wk = [w \in Workers |-> IdleWorker]
  /\ fwdLog = [k \in 1..MaxConns |-> << >>]
  /\ revLog = [k \in 1..MaxConns |-> << >>]
  /\ closeCount = [k \in 1..MaxConns |-> 0]
  /\ issued = << >>
  /\ origin = [k \in 1..MaxConns |-> << >>]
  /\ refused = {}
  /\ broken = {}
  /\ upstream = [wr |-> << >>, rd |-> << >>]
  /\ connsL = [w |-> 0, r |-> {}]
  /\ sent = NoResponse

\* The goroutines of the client that make queries, by the function they run.
Routines == { "Client", "proxyForward", "proxyBack" }

\* Nothing in flight.
NoTraffic == [a \in Routines |-> [req |-> << >>, resp |-> << >>]]

\* A process that was started as a server: Client is never called.
NoClient ==
  [main |-> "off", err |-> "nil", id |-> << >>, pollMax |-> 0, pollCur |-> 0,
   fwd |-> 0, rev |-> 0, panic |-> FALSE,
   f |-> [pc |-> "off", qn |-> 0, buf |-> << >>, rerr |-> "nil",
          signals |-> 0],
   b |-> [pc |-> "off", qn |-> 0, buf |-> << >>]]

NoStdio == [in |-> << >>, out |-> << >>, eof |-> FALSE, reads |-> 0]

\* The state of the server after the init functions of its package.
Init ==
  /\ InitServer
  /\ net = NoTraffic
  /\ client = NoClient
  /\ done = << >>
  /\ stdio = NoStdio

\* The labels of a worker's query.
Labels(w) == Split(wk[w].qn)

\* A worker finishes: the reply is sent and the goroutine ends.
Finish(w, reply) ==
  /\ wk' = [wk EXCEPT ![w] = IdleWorker]
  /\ sent' = reply
  /\ net' = IF wk[w].addr = "none" THEN net
            ELSE [net EXCEPT ![wk[w].addr].resp = Append(@, reply)]
  /\ UNCHANGED cvars

\* A worker goes on, with its local variables as given.
Move(w, rec) ==
  /\ wk' = [wk EXCEPT ![w] = rec]
  /\ UNCHANGED << sent, net, cvars >>

Goto(w, pc) == Move(w, [wk[w] EXCEPT !.pc = pc])

(***************************************************************************)
(* conn.go                                                                 *)
(***************************************************************************)
\* A lookup that still finds the first conn after it left the map.
getConnStale(id) ==
  IF id \in DOMAIN conns THEN conns[id]
  ELSE IF id = FirstId /\ Len(heap) > 0 THEN 1 ELSE 0

\* getConn
getConn(id) == IF id \in DOMAIN conns THEN conns[id] ELSE 0

\* The map after delete(conns, id) for every id of a set.
Without(ids) == [i \in (DOMAIN conns) \ ids |-> conns[i]]

\* A deleteConn that starts closeConn and leaves the conn in the map.
deleteConnKeep(id) ==
  IF id \in DOMAIN conns
  THEN /\ conns' = conns
       /\ closing' = closing \cup {conns[id]}
  ELSE UNCHANGED << conns, closing >>

\* deleteConn: remove the conn from the map and start closeConn for it.
deleteConn(id) ==
  IF id \in DOMAIN conns
  THEN /\ conns' = Without({id})
       /\ closing' = closing \cup {conns[id]}
  ELSE UNCHANGED << conns, closing >>

\* A comparison that also holds of equal instants.
NotAfter(t, u) == t <= u

\* c.last.Before(last)
Before(t, u) == t < u

\* pruneConns: one turn of its loop, time.Sleep(interval), then
\* pruneConnsSince(last), then last = time.Now().
PruneConns ==
  /\ now >= pruneLast + pruneInterval
  /\ LET old == { id \in DOMAIN conns :
                    Before(heap[conns[id]].last, pruneLast) }
     IN /\ conns' = Without(old)
        /\ closing' = closing \cup { conns[id] : id \in old }
  /\ pruneLast' = now
  /\ UNCHANGED << now, connNextID, heap, seenTSCache, ansCache, wk,
                  fwdLog, revLog, closeCount, issued, origin, refused, broken,
                  upstream, connsL, sent,
                  net, cvars >>

\* closeConn, the goroutine deleteConn and pruneConnsSince start.
closeConn(k) ==
  /\ k \in closing
  /\ closing' = closing \ {k}
  /\ heap' = [heap EXCEPT ![k].c = "closed"]
  /\ closeCount' = [closeCount EXCEPT ![k] = @ + 1]
  /\ UNCHANGED << now, conns, connNextID, seenTSCache, ansCache, pruneLast,
                  wk, fwdLog, revLog, issued, origin, refused, broken,
                  upstream, connsL, sent,
                  net, cvars >>

\* The pcs at which a worker calls c.updateLast, and where it goes next.
UpdatePcs == { "fwd_upd1", "fwd_upd2", "rev_upd1", "rev_upd2" }

\* updateLast, first half: c.timeL.Lock()
updateLastLock(w) ==
  /\ wk[w].pc \in UpdatePcs
  /\ heap[wk[w].c].timeL = 0
  /\ heap' = [heap EXCEPT ![wk[w].c].timeL = w]
  /\ UNCHANGED << now, conns, connNextID, seenTSCache, ansCache, closing,
                  pruneLast, wk, fwdLog, revLog, closeCount, issued, origin,
                  refused, broken, upstream, connsL, sent,
                  net, cvars >>

\* The passing of time.
Tick ==
  /\ now < MaxTime
  /\ now' = now + 1
  /\ UNCHANGED << conns, connNextID, heap, seenTSCache, ansCache, closing,
                  pruneLast, wk, fwdLog, revLog, closeCount, issued, origin,
                  refused, broken, upstream, connsL, sent,
                  net, cvars >>

\* An updateLast that leaves timeL locked.
SetLastHeld(w) == [heap EXCEPT ![wk[w].c].last = now]

\* updateLast, second half: c.last = time.Now() and the deferred Unlock.
\* After the last updateLast of a handler the handler returns.
SetLast(w) == [heap EXCEPT ![wk[w].c].last = now, ![wk[w].c].timeL = 0]

(***************************************************************************)
(* server.go: handlePacket up to the call of a handler                     *)
(***************************************************************************)
\* Whether handlePacket gets as far as the deferred response.
Accepted(p) ==
  /\ p.ok
  /\ p.questions = 1
  /\ p.type = "TXT"
  /\ ~p.response
  /\ HasSuffix(p.name, domainName)
  /\ Len(Split(ToLower(TrimSuffix(p.name, domainName)))) \in {1, 2, 3}

\* A dispatcher that forgets strings.ToLower.
StrippedOnly(p) == TrimSuffix(p.name, domainName)

\* The name the handlers and the answer cache see.
Stripped(p) == ToLower(TrimSuffix(p.name, domainName))

\* A dispatcher that caches the answers to all queries.
CacheableAlways(n) == TRUE

\* Whether the answer cache is used for a query of this many labels.
Cacheable(n) == n = 2

HandlerPc(n) == CASE n = 1 -> "newconn" [] n = 2 -> "reverse" [] n = 3 -> "forward"

\* The id label of a forward or reverse query name, <<>> for a handshake.
IdOf(qn) == IF Len(Split(qn)) = 1 THEN << >> ELSE Split(qn)[Len(Split(qn))]

handlePacket(w, p) ==
  /\ wk[w].pc = "idle"
  /\ IF ~Accepted(p)
     THEN UNCHANGED wk   \* dropped: no reply is sent
     ELSE LET qn == Stripped(p)
              n == Len(Split(qn))
          IN IF Cacheable(n) /\ qn \in DOMAIN ansCache
             THEN \* reply = ca.(*string); return
                  wk' = [wk EXCEPT ![w] =
                           [IdleWorker EXCEPT !.pc = "cached", !.qn = qn,
                                              !.reply = ansCache[qn],
                                              !.addr = p.addr]]
             ELSE wk' = [wk EXCEPT ![w] =
                           [IdleWorker EXCEPT !.pc = HandlerPc(n), !.qn = qn,
                                              !.addr = p.addr]]
  \* the datagram has left the network
  /\ net' = IF p.addr = "none" THEN net
            ELSE [net EXCEPT ![p.addr].req = Tail(@)]
  /\ UNCHANGED << sent, cvars >>
  /\ UNCHANGED << now, conns, connNextID, heap, seenTSCache, ansCache,
                  closing, pruneLast, fwdLog, revLog, closeCount, issued,
                  origin, refused, broken, upstream, connsL >>

\* The read loop of Server hands a datagram to a new goroutine.
Receive(w, packets) == \E p \in packets : handlePacket(w, p)

\* handlePacket after ansCache.Get found the name: the deferred function
\* sends the cached reply.
answerCached(w) ==
  /\ wk[w].pc = "cached"
  /\ Finish(w, wk[w].reply)
  /\ UNCHANGED << now, conns, connNextID, heap, seenTSCache, ansCache,
                  closing, pruneLast, fwdLog, revLog, closeCount, issued,
                  origin, refused, broken, upstream, connsL >>

\* ansCache.Add: the cache holds at most ansCacheSize entries; adding a
\* new key to a full cache evicts an entry (which one is the policy of the
\* two-queue LRU, left open here).
Add(cache, key, value) ==
  IF key \in DOMAIN cache \/ Cardinality(DOMAIN cache) < ansCacheSize
  THEN { [q \in (DOMAIN cache) \cup {key} |->
            IF q = key THEN value ELSE cache[q]] }
  ELSE { [q \in ((DOMAIN cache) \ {victim}) \cup {key} |->
            IF q = key THEN value ELSE cache[q]] : victim \in DOMAIN cache }

\* handlePacket after a handler returned bytes: the reply is encoded, put
\* in ansCache if the query has two labels, and sent.
Respond(w, reply) ==
  /\ IF Cacheable(Len(Labels(w)))
     THEN ansCache' \in Add(ansCache, wk[w].qn, reply)
     ELSE ansCache' = ansCache
  /\ Finish(w, reply)

(***************************************************************************)
(* newconn.go and newConn of conn.go                                       *)
(***************************************************************************)
\* strconv.ParseInt(l, 10, 64) for the unsigned decimal strings of the model.
ParseInt(l) == ParseUint(l, 10)

\* Whether the timestamp is within maxTSOff of the clock.
InWindow(n) ==
  LET diff == IF n - now < 0 THEN now - n ELSE n - now
  IN ~(maxTSOff < diff)

\* handleNewConn up to and including seenTSCache.Contains
handleNewConn(w) ==
  /\ wk[w].pc = "newconn"
  /\ LET l == Labels(w)[1]
         n == ParseInt(l)
     IN IF n = ParseErr \/ ~InWindow(n) \/ l \in seenTSCache
        THEN Finish(w, NXDomain)
        ELSE Goto(w, "nc_add")
  /\ UNCHANGED << now, conns, connNextID, heap, seenTSCache, ansCache,
                  closing, pruneLast, fwdLog, revLog, closeCount, issued,
                  origin, refused, broken, upstream, connsL >>

\* seenTSCache.Add, then newConn up to the end of net.Dial
\* A seenTSCache that forgets what it is given.
AddTSForget(cache, key) == { cache }

\* seenTSCache.Add: the cache holds at most tsCacheSize keys; adding a new
\* key to a full cache evicts one.
AddTS(cache, key) ==
  IF key \in cache \/ Cardinality(cache) < tsCacheSize
  THEN { cache \cup {key} }
  ELSE { (cache \ {victim}) \cup {key} : victim \in cache }

newConnDial(w) ==
  /\ wk[w].pc = "nc_add"
  /\ seenTSCache' \in AddTS(seenTSCache, Labels(w)[1])
  /\ \E ok \in BOOLEAN :
       IF ok
       THEN /\ Len(heap) < MaxConns
            /\ heap' = Append(heap, NewConnObj)
            /\ Move(w, [wk[w] EXCEPT !.pc = "nc_id", !.c = Len(heap) + 1])
            /\ UNCHANGED << refused, broken, upstream, connsL >>
       ELSE /\ Finish(w, NXDomain)
            /\ refused' = refused \cup {Labels(w)[1]}
            /\ UNCHANGED << broken, upstream, connsL >>
            /\ UNCHANGED heap
  /\ UNCHANGED << now, conns, connNextID, ansCache, closing, pruneLast,
                  fwdLog, revLog, closeCount, issued, origin >>

\* The id newConn gives the conn.
NewID == FormatUint(connNextID)

\* A newConn that gives out the id it gave out before.
Same(n) == n

\* connNextID++
Incr(n) == n + 1

\* newConn from connsL.Lock to its return, and the reply of handleNewConn
newConnSave(w) ==
  /\ wk[w].pc = "nc_id"
  /\ connNextID' = Incr(connNextID)
  /\ conns' = [i \in (DOMAIN conns) \cup {NewID} |->
                 IF i = NewID THEN wk[w].c ELSE conns[i]]
  /\ issued' = Append(issued, NewID)
  /\ origin' = [origin EXCEPT ![wk[w].c] = Labels(w)[1]]
  /\ UNCHANGED << refused, broken, upstream, connsL >>
  /\ Respond(w, TXT(EncodeToString(Bytes(NewID))))
  /\ UNCHANGED << now, heap, seenTSCache, closing, pruneLast, fwdLog, revLog,
                  closeCount >>

(***************************************************************************)
(* forward.go                                                              *)
(***************************************************************************)
\* handleForward up to and including getConn
handleForward(w) ==
  /\ wk[w].pc = "forward"
  /\ LET cn == ParseUint(Labels(w)[1], 36)
         b == dec(ToUpper(Labels(w)[2]))
         c == getConn(Labels(w)[3])
     IN IF cn = ParseErr \/ b = DecErr \/ c = 0
        THEN Finish(w, NXDomain)
        ELSE Move(w, [wk[w] EXCEPT !.pc = "fwd_lock", !.c = c])
  /\ UNCHANGED << now, conns, connNextID, heap, seenTSCache, ansCache,
                  closing, pruneLast, fwdLog, revLog, closeCount, issued,
                  origin, refused, broken, upstream, connsL >>

\* A handler that also takes a counter ahead of the expected one.
FwdExpectedOrLater(cn, c) == cn >= c.nextFwd

\* Whether a forward request with counter cn is the one conn c expects.
FwdExpected(cn, c) == cn = c.nextFwd

\* c.nextFwdL.Lock(), the check of the counter and c.nextFwd++
forwardLock(w) ==
  /\ wk[w].pc = "fwd_lock"
  /\ heap[wk[w].c].nextFwdL = 0
  /\ IF FwdExpected(ParseUint(Labels(w)[1], 36), heap[wk[w].c])
     THEN /\ heap' = [heap EXCEPT ![wk[w].c].nextFwd = @ + 1,
                                  ![wk[w].c].nextFwdL = w]
          /\ Goto(w, "fwd_upd1")
     ELSE /\ Finish(w, NXDomain)
          /\ UNCHANGED heap
  /\ UNCHANGED << now, conns, connNextID, seenTSCache, ansCache, closing,
                  pruneLast, fwdLog, revLog, closeCount, issued, origin,
                  refused, broken, upstream, connsL >>

\* c.c.Write(b): it fails on a socket closeConn has closed, and whenever
\* the network makes it fail.
forwardWrite(w) ==
  /\ wk[w].pc = "fwd_write"
  /\ fwdLog' = [fwdLog EXCEPT
                  ![wk[w].c] = Append(@, ParseUint(Labels(w)[1], 36))]
  /\ \E ok \in BOOLEAN :
       /\ ok => heap[wk[w].c].c = "open"
       /\ Goto(w, IF ok THEN "fwd_upd2" ELSE "fwd_del")
       /\ broken' = IF ok THEN broken ELSE broken \cup {wk[w].c}
       /\ upstream' = IF ok /\ wk[w].addr # "none"
                      THEN [upstream EXCEPT
                              !.wr = @ \o dec(ToUpper(Labels(w)[2]))]
                      ELSE upstream
  /\ UNCHANGED << now, conns, connNextID, heap, seenTSCache, ansCache,
                  closing, pruneLast, revLog, closeCount, issued, origin,
                  refused, connsL >>

\* Whether the handler deletes the conn after this failure.
DeletesOn(failure) == failure \in {"write", "deadline"}

\* The error return of handleForward after a failed write: deleteConn(id),
\* the deferred Unlock.
forwardFail(w) ==
  /\ wk[w].pc = "fwd_del"
  /\ IF DeletesOn("write")
     THEN deleteConn(Labels(w)[3])
     ELSE UNCHANGED << conns, closing >>
  /\ heap' = [heap EXCEPT ![wk[w].c].nextFwdL = 0]
  /\ Finish(w, NXDomain)
  /\ UNCHANGED << now, connNextID, seenTSCache, ansCache, pruneLast, fwdLog,
                  revLog, closeCount, issued, origin, refused, broken,
                  upstream, connsL >>

(***************************************************************************)
(* reverse.go                                                              *)
(***************************************************************************)
\* handleReverse up to and including getConn
handleReverse(w) ==
  /\ wk[w].pc = "reverse"
  /\ LET cn == ParseUint(Labels(w)[1], 36)
         c == getConn(Labels(w)[2])
     IN IF cn = ParseErr \/ c = 0
        THEN Finish(w, NXDomain)
        ELSE Move(w, [wk[w] EXCEPT !.pc = "rev_lock", !.c = c])
  /\ UNCHANGED << now, conns, connNextID, heap, seenTSCache, ansCache,
                  closing, pruneLast, fwdLog, revLog, closeCount, issued,
                  origin, refused, broken, upstream, connsL >>

\* A handler that checks the counter of the other direction.
RevExpectedAsFwd(cn, c) == cn = c.nextFwd

\* Whether a reverse request with counter cn is the one conn c expects.
RevExpected(cn, c) == cn = c.nextRev

\* c.nextRevL.Lock(), the check of the counter, c.nextRev++ and
\* c.c.SetReadDeadline, which fails on a socket closeConn has closed.
reverseLock(w) ==
  /\ wk[w].pc = "rev_lock"
  /\ heap[wk[w].c].nextRevL = 0
  /\ IF RevExpected(ParseUint(Labels(w)[1], 36), heap[wk[w].c])
     THEN /\ heap' = [heap EXCEPT ![wk[w].c].nextRev = @ + 1,
                                  ![wk[w].c].nextRevL = w]
          /\ Goto(w, IF heap[wk[w].c].c = "open" THEN "rev_upd1"
                                                 ELSE "rev_del")
     ELSE /\ Finish(w, NXDomain)
          /\ UNCHANGED heap
  /\ UNCHANGED << now, conns, connNextID, seenTSCache, ansCache, closing,
                  pruneLast, fwdLog, revLog, closeCount, issued, origin,
                  refused, broken, upstream, connsL >>

\* The error return of handleReverse after a failed SetReadDeadline.
reverseFail(w) ==
  /\ wk[w].pc = "rev_del"
  /\ IF DeletesOn("deadline")
     THEN deleteConn(Labels(w)[2])
     ELSE UNCHANGED << conns, closing >>
  /\ heap' = [heap EXCEPT ![wk[w].c].nextRevL = 0]
  /\ Finish(w, NXDomain)
  /\ UNCHANGED << now, connNextID, seenTSCache, ansCache, pruneLast, fwdLog,
                  revLog, closeCount, issued, origin, refused, broken,
                  upstream, connsL >>

\* c.c.Read(buf): on a socket closeConn has closed it reads nothing and
\* fails; otherwise the upstream decides.
reverseRead(w) ==
  /\ wk[w].pc = "rev_read"
  /\ revLog' = [revLog EXCEPT
                  ![wk[w].c] = Append(@, ParseUint(Labels(w)[1], 36))]
  /\ \E r \in IF wk[w].addr = "none" THEN ReadResults
                ELSE UpstreamReads(Len(upstream.rd)) :
       /\ heap[wk[w].c].c = "closed" => r = [buf |-> << >>, err |-> "EOF"]
       /\ Move(w, [wk[w] EXCEPT !.pc = "rev_upd2", !.res = r])
       /\ broken' = IF r.err \in {"nil", "timeout"} THEN broken
                    ELSE broken \cup {wk[w].c}
       /\ upstream' = IF wk[w].addr # "none"
                      THEN [upstream EXCEPT !.rd = @ \o r.buf]
                      ELSE upstream
  /\ UNCHANGED << now, conns, connNextID, heap, seenTSCache, ansCache,
                  closing, pruneLast, fwdLog, closeCount, issued, origin,
                  refused, connsL >>

\* A handleReverse that returns the bytes it read whatever the error.
ReverseReplyLenient(res) == TXT(EncodeToString(res.buf))

\* What handleReverse returns for the result of the read: the bytes of the
\* reply, or nil with an error.
ReverseReply(res) ==
  IF Len(res.buf) # 0 THEN TXT(EncodeToString(res.buf))
  ELSE IF res.err = "nil" \/ res.err = "timeout" THEN TXT(EncodeToString(<< >>))
  ELSE NXDomain

(***************************************************************************)
(* updateLast, second half, and what follows it                            *)
(***************************************************************************)
updateLastSet(w) ==
  /\ wk[w].pc \in UpdatePcs
  /\ heap[wk[w].c].timeL = w
  /\ CASE wk[w].pc = "fwd_upd1" ->
            /\ heap' = SetLast(w)
            /\ Goto(w, "fwd_write")
            /\ UNCHANGED ansCache
       [] wk[w].pc = "rev_upd1" ->
            /\ heap' = SetLast(w)
            /\ Goto(w, "rev_read")
            /\ UNCHANGED ansCache
       [] wk[w].pc = "fwd_upd2" ->
            \* return []byte{}, nil
            /\ heap' = [SetLast(w) EXCEPT ![wk[w].c].nextFwdL = 0]
            /\ Respond(w, TXT(EncodeToString(<< >>)))
       [] wk[w].pc = "rev_upd2" ->
            \* the returns after the read
            /\ heap' = [SetLast(w) EXCEPT ![wk[w].c].nextRevL = 0]
            /\ IF ReverseReply(wk[w].res) = NXDomain
               THEN Finish(w, NXDomain)
               ELSE Goto(w, "respond")
            /\ UNCHANGED ansCache
  /\ UNCHANGED << now, conns, connNextID, seenTSCache, closing, pruneLast,
                  fwdLog, revLog, closeCount, issued, origin, refused, broken,
                  upstream, connsL >>

\* handlePacket after handleReverse returned bytes.
answerAdd(w) ==
  /\ wk[w].pc = "respond"
  /\ Respond(w, ReverseReply(wk[w].res))
  /\ UNCHANGED << now, conns, connNextID, heap, seenTSCache, closing,
                  pruneLast, fwdLog, revLog, closeCount, issued, origin,
                  refused, broken, upstream, connsL >>

(***************************************************************************)
(* The server                                                              *)
(***************************************************************************)
Environment ==
  \/ Tick
  \/ PruneConns
  \/ \E k \in 1..MaxConns : closeConn(k)

\* The whole server.
Next ==
  \/ Environment
  \/ \E w \in Workers :
       \/ Receive(w, ServerPackets)
       \/ handleNewConn(w)
       \/ newConnDial(w)
       \/ newConnSave(w)
       \/ handleForward(w)
       \/ forwardLock(w)
       \/ forwardWrite(w)
       \/ forwardFail(w)
       \/ handleReverse(w)
       \/ reverseLock(w)
       \/ reverseFail(w)
       \/ reverseRead(w)
       \/ updateLastLock(w)
       \/ updateLastSet(w)
       \/ answerAdd(w)
       \/ answerCached(w)

Spec == Init /\ [][Next]_vars

\* The server under handshakes only.
NextHandshake ==
  \/ Environment
  \/ \E w \in Workers :
       \/ Receive(w, HandshakePackets)
       \/ handleNewConn(w)
       \/ newConnDial(w)
       \/ newConnSave(w)

SpecHandshake == Init /\ [][NextHandshake]_vars

\* The server under one handshake and forward queries.
NextForward ==
  \/ Environment
  \/ \E w \in Workers :
       \/ Receive(w, FirstHandshake \cup ForwardPackets)
       \/ handleNewConn(w)
       \/ newConnDial(w)
       \/ newConnSave(w)
       \/ handleForward(w)
       \/ forwardLock(w)
       \/ forwardWrite(w)
       \/ forwardFail(w)
       \/ updateLastLock(w)
       \/ updateLastSet(w)

SpecForward == Init /\ [][NextForward]_vars

\* The same, with the scheduler running every closeConn goroutine that
\* deleteConn or pruneConnsSince started.
FairForward ==
  SpecForward /\ \A k \in 1..MaxConns : WF_vars(closeConn(k))

\* The server under one handshake and reverse queries.
NextReverse ==
  \/ Environment
  \/ \E w \in Workers :
       \/ Receive(w, FirstHandshake \cup ReversePackets)
       \/ handleNewConn(w)
       \/ newConnDial(w)
       \/ newConnSave(w)
       \/ handleReverse(w)
       \/ reverseLock(w)
       \/ reverseFail(w)
       \/ reverseRead(w)
       \/ updateLastLock(w)
       \/ updateLastSet(w)
       \/ answerAdd(w)
       \/ answerCached(w)

SpecReverse == Init /\ [][NextReverse]_vars

(***************************************************************************)
(* client.go, as given in README.md                                        *)
(***************************************************************************)
\* The variables only the server changes.
svars == << now, conns, connNextID, heap, seenTSCache, ansCache, closing,
            pruneLast, wk, fwdLog, revLog, closeCount, issued, origin,
            refused, broken, upstream, connsL, sent >>

\* pollMin, in nanoseconds
pollMin == 1

\* pollIncFactor = 1.5, as a fraction
pollIncNum == 3

pollIncDen == 2

\* cap(done)
doneCap == 2

\* The values of -poll-max, in nanoseconds.
PollMaxes == { 0, 3 }

\* The label handshake sends: the clock of the client, in decimal.
ClientTimestamp == << "1" >>

\* The file on stdin: h, i, j, ...
StdinByte(n) == 104 + n

\* What os.Stdin.Read can return after n bytes were read: (n, err) with the
\* next byte of the file or none.
StdinReads(n) ==
  { [buf |-> << StdinByte(n) >>, err |-> "nil"],
    [buf |-> << StdinByte(n) >>, err |-> "EOF"],
    [buf |-> << >>, err |-> "EOF"] }

\* An enc that leaves out the last three bits of the byte.
encHigh(b) ==
  IF Len(b) = 0 THEN << >>
  ELSE << B32Alphabet[(b[1] \div 8) + 1], B32Alphabet[1] >>

\* enc, base32 without padding, for a buffer of at most one byte.
enc(b) ==
  IF Len(b) = 0 THEN << >>
  ELSE << B32Alphabet[(b[1] \div 8) + 1], B32Alphabet[((b[1] % 8) * 4) + 1] >>

\* dec of the client: base64.RawStdEncoding.DecodeString
RECURSIVE DecodeString(_)
DecodeString(t) ==
  LET v(i) == IndexIn(B64Alphabet, t[i]) - 1
  IN IF \E i \in 1..Len(t) : IndexIn(B64Alphabet, t[i]) = 0 THEN DecErr
     ELSE IF Len(t) = 0 THEN << >>
     ELSE IF Len(t) = 1 THEN DecErr
     ELSE IF Len(t) = 2 THEN << v(1) * 4 + (v(2) \div 16) >>
     ELSE IF Len(t) = 3
          THEN << v(1) * 4 + (v(2) \div 16),
                  (v(2) % 16) * 16 + (v(3) \div 4) >>
     ELSE LET rest == DecodeString(SubSeq(t, 5, Len(t)))
          IN IF rest = DecErr THEN DecErr
             ELSE << v(1) * 4 + (v(2) \div 16),
                     (v(2) % 16) * 16 + (v(3) \div 4),
                     (v(3) % 4) * 64 + v(4) >> \o rest

\* string(id): the characters of bytes that are base-36 digits.
String(b) ==
  [i \in 1..Len(b) |->
     IF b[i] >= 48 /\ b[i] <= 57 THEN Digits36[b[i] - 47]
     ELSE IF b[i] >= 97 /\ b[i] <= 122 THEN Digits36[b[i] - 86]
     ELSE "?"]

\* c.query on the reply to its datagram: the bytes and the error.
query(resp) ==
  IF resp.rcode # "NOERROR" THEN [b |-> << >>, err |-> "querying"]
  ELSE IF Len(resp.txt) = 0 THEN [b |-> << >>, err |-> "nil"]
  ELSE IF DecodeString(resp.txt) = DecErr
       THEN [b |-> << >>, err |-> "decoding"]
  ELSE [b |-> DecodeString(resp.txt), err |-> "nil"]

\* net.LookupTXT(sd + c.domain): the datagram goes out from goroutine a.
LookupTXT(a, labels) ==
  net' = [net EXCEPT
            ![a].req = Append(@, [Packet(QName(labels)) EXCEPT !.addr = a])]

\* The reply to the datagram of goroutine a has come.
Replied(a) == net[a].resp # << >>

\* The process runs: it has not panicked and Client has not returned.
Running == ~client.panic /\ client.main \notin { "off", "returned" }

\* handshake up to its query
handshake ==
  /\ Running
  /\ client.main = "start"
  /\ LookupTXT("Client", << ClientTimestamp >>)
  /\ client' = [client EXCEPT !.main = "handshake"]
  /\ UNCHANGED << svars, done, stdio >>

\* The rest of handshake, and Client up to the start of the pumps.
Client ==
  /\ Running
  /\ client.main = "handshake"
  /\ Replied("Client")
  /\ net' = [net EXCEPT !["Client"].resp = Tail(@)]
  /\ LET r == query(Head(net["Client"].resp))
     IN IF r.err # "nil" \/ Len(r.b) = 0
        THEN client' = [client EXCEPT !.main = "returned",
                                      !.err = "handshake"]
        ELSE client' = [client EXCEPT !.main = "wait", !.id = String(r.b),
                                      !.f.pc = "read", !.b.pc = "poll"]
  /\ UNCHANGED << svars, done, stdio >>

\* err = <-done, and the loads of c.fwd and c.rev
ClientWait ==
  /\ Running
  /\ client.main = "wait"
  /\ done # << >>
  /\ done' = Tail(done)
  /\ client' = [client EXCEPT !.main = "deferred", !.err = Head(done)]
  /\ UNCHANGED << svars, net, stdio >>

\* defer func() { <-done }(), and the return
ClientReturn ==
  /\ Running
  /\ client.main = "deferred"
  /\ done # << >>
  /\ done' = Tail(done)
  /\ client' = [client EXCEPT !.main = "returned"]
  /\ UNCHANGED << svars, net, stdio >>

\* The next statement of proxyForward after a read and, if there was one,
\* the query: done <- read error if the read failed, the loop otherwise.
AfterRead(rerr) == IF rerr # "nil" THEN "signal" ELSE "read"

\* proxyForward: os.Stdin.Read and, if it read bytes, the query.  After a
\* failed read the file stays at its end.
proxyForwardRead ==
  /\ Running
  /\ client.f.pc = "read"
  /\ \E r \in StdinReads(Len(stdio.in)) :
       /\ Len(r.buf) # 0 => Len(stdio.in) < MaxStdin /\ ~stdio.eof
       /\ stdio' = [stdio EXCEPT !.in = @ \o r.buf,
                                 !.eof = @ \/ r.err # "nil",
                                 !.reads = IF @ < MaxStdin + 2 THEN @ + 1
                                                              ELSE @]
       /\ IF Len(r.buf) # 0
          THEN /\ LookupTXT("proxyForward",
                            << FormatUint(client.f.qn), enc(r.buf),
                               client.id >>)
               /\ client' = [client EXCEPT !.f.pc = "query",
                                           !.f.buf = r.buf,
                                           !.f.rerr = r.err]
          ELSE /\ client' = [client EXCEPT !.f.pc = AfterRead(r.err),
                                           !.f.buf = r.buf,
                                           !.f.rerr = r.err]
               /\ UNCHANGED net
  /\ UNCHANGED << svars, done >>

\* proxyForward: the return of c.query
proxyForwardSent ==
  /\ Running
  /\ client.f.pc = "query"
  /\ Replied("proxyForward")
  /\ net' = [net EXCEPT !["proxyForward"].resp = Tail(@)]
  /\ IF query(Head(net["proxyForward"].resp)).err # "nil"
     THEN client' = [client EXCEPT !.f.pc = "senderr"]
     ELSE client' = [client EXCEPT !.fwd = @ + Len(client.f.buf),
                                   !.f.qn = @ + 1,
                                   !.f.pc = AfterRead(client.f.rerr)]
  /\ UNCHANGED << svars, done, stdio >>

\* proxyForward: done <- send error, and the return
proxyForwardFail ==
  /\ Running
  /\ client.f.pc = "senderr"
  /\ Len(done) < doneCap
  /\ done' = Append(done, "send")
  /\ client' = [client EXCEPT !.f.pc = "returned"]
  /\ UNCHANGED << svars, net, stdio >>

\* proxyForward: done <- read error; the loop goes on.
proxyForwardSignal ==
  /\ Running
  /\ client.f.pc = "signal"
  /\ Len(done) < doneCap
  /\ done' = Append(done, "read")
  /\ client' = [client EXCEPT !.f.pc = "read",
                              !.f.signals = IF @ < doneCap THEN @ + 1 ELSE @]
  /\ UNCHANGED << svars, net, stdio >>

\* poll: the query of proxyBack
poll ==
  /\ Running
  /\ client.b.pc = "poll"
  /\ client.b.qn < MaxPolls
  /\ LookupTXT("proxyBack", << FormatUint(client.b.qn), client.id >>)
  /\ client' = [client EXCEPT !.b.pc = "query"]
  /\ UNCHANGED << svars, done, stdio >>

\* time.Duration(float64(c.pollCur) * pollIncFactor): the product is cut
\* off towards zero.
IncPoll(cur) ==
  IF cur >= 0 THEN (cur * pollIncNum) \div pollIncDen
  ELSE 0 - (((0 - cur) * pollIncNum) \div pollIncDen)

\* The interval after an empty reply.
NextPoll(cur, max) == IF IncPoll(cur) > max THEN max ELSE IncPoll(cur)

\* proxyBack: the return of poll, qn++, and the new pollCur after an empty
\* reply.
proxyBack ==
  /\ Running
  /\ client.b.pc = "query"
  /\ Replied("proxyBack")
  /\ net' = [net EXCEPT !["proxyBack"].resp = Tail(@)]
  /\ LET r == query(Head(net["proxyBack"].resp))
     IN IF r.err # "nil"
        THEN client' = [client EXCEPT !.b.pc = "recverr"]
        ELSE IF Len(r.b) # 0
        THEN client' = [client EXCEPT !.b.qn = @ + 1, !.b.buf = r.b,
                                      !.b.pc = "write"]
        ELSE client' = [client EXCEPT
                          !.b.qn = @ + 1, !.b.buf = r.b,
                          !.pollCur = NextPoll(@, client.pollMax),
                          !.b.pc = "jitter"]
  /\ UNCHANGED << svars, done, stdio >>

\* proxyBack: os.Stdout.Write(b), which may fail, and c.pollCur = pollMin
proxyBackWrite ==
  /\ Running
  /\ client.b.pc = "write"
  /\ \E ok \in BOOLEAN :
       IF ok
       THEN /\ stdio' = [stdio EXCEPT !.out = @ \o client.b.buf]
            /\ client' = [client EXCEPT !.rev = @ + Len(client.b.buf),
                                        !.pollCur = pollMin,
                                        !.b.pc = "poll"]
       ELSE /\ client' = [client EXCEPT !.b.pc = "writeerr"]
            /\ UNCHANGED stdio
  /\ UNCHANGED << svars, net, done >>

\* proxyBack: done <- err, and the return
proxyBackFail ==
  /\ Running
  /\ client.b.pc \in { "recverr", "writeerr" }
  /\ Len(done) < doneCap
  /\ done' = Append(done, IF client.b.pc = "recverr" THEN "recv" ELSE "write")
  /\ client' = [client EXCEPT !.b.pc = "returned"]
  /\ UNCHANGED << svars, net, stdio >>

\* proxyBack: rand.Int63n(int64(c.pollCur)), which panics unless its
\* argument is positive, and time.Sleep(st)
proxyBackSleep ==
  /\ Running
  /\ client.b.pc = "jitter"
  /\ IF client.pollCur > 0
     THEN client' = [client EXCEPT !.b.pc = "poll"]
     ELSE client' = [client EXCEPT !.panic = TRUE]
  /\ UNCHANGED << svars, net, done, stdio >>

\* What the resolver and the server can answer to a query of a goroutine.
Replies(a) ==
  IF a = "Client"
  THEN { NXDomain, TXT(<< >>), TXT(EncodeToString(Bytes(FirstId))) }
  ELSE IF a = "proxyForward"
  THEN { NXDomain, TXT(<< >>) }
  ELSE { NXDomain, TXT(<< >>), TXT(EncodeToString(<< 119 >>)),
         TXT(<< "!" >>) }

\* The resolver and the server, seen from the client: some reply comes.
Resolve(a) ==
  /\ net[a].req # << >>
  /\ \E r \in Replies(a) :
       net' = [net EXCEPT ![a].req = Tail(@), ![a].resp = Append(@, r)]
  /\ UNCHANGED << svars, cvars >>

\* The process started as a client, with some -poll-max.
InitClient ==
  /\ InitServer
  /\ net = NoTraffic
  /\ \E m \in PollMaxes :
       client = [NoClient EXCEPT !.main = "start", !.pollMax = m]
  /\ done = << >>
  /\ stdio = NoStdio

\* The client against any server.
NextClient ==
  \/ handshake
  \/ Client
  \/ ClientWait
  \/ ClientReturn
  \/ proxyForwardRead
  \/ proxyForwardSent
  \/ proxyForwardFail
  \/ proxyForwardSignal
  \/ poll
  \/ proxyBack
  \/ proxyBackWrite
  \/ proxyBackFail
  \/ proxyBackSleep
  \/ \E a \in Routines : Resolve(a)

SpecClient == InitClient /\ [][NextClient]_vars

\* The datagrams of the client the read loop of Server can get next.
Arrived == { Head(net[a].req) : a \in { r \in Routines : net[r].req # << >> } }

\* The client against the server, with a resolver that hands every query to
\* the server once and every response to the client.
NextEndToEnd ==
  \/ handshake
  \/ Client
  \/ ClientWait
  \/ ClientReturn
  \/ proxyForwardRead
  \/ proxyForwardSent
  \/ proxyForwardFail
  \/ proxyForwardSignal
  \/ poll
  \/ proxyBack
  \/ proxyBackWrite
  \/ proxyBackFail
  \/ proxyBackSleep
  \/ Environment
  \/ \E w \in Workers :
       \/ Receive(w, Arrived)
       \/ handleNewConn(w)
       \/ newConnDial(w)
       \/ newConnSave(w)
       \/ handleForward(w)
       \/ forwardLock(w)
       \/ forwardWrite(w)
       \/ forwardFail(w)
       \/ handleReverse(w)
       \/ reverseLock(w)
       \/ reverseFail(w)
       \/ reverseRead(w)
       \/ updateLastLock(w)
       \/ updateLastSet(w)
       \/ answerAdd(w)

SpecEndToEnd == InitClient /\ [][NextEndToEnd]_vars

(***************************************************************************)
(* The server with connsL taken and released in steps of their own         *)
(***************************************************************************)
\* Everything but connsL.
lvars == << now, conns, connNextID, heap, seenTSCache, ansCache, closing,
            pruneLast, wk, fwdLog, revLog, closeCount, issued, origin,
            refused, broken, upstream, sent, net, cvars >>

\* The goroutine of pruneConns, and all goroutines that take locks.
Pruner == NumWorkers + 1
Goroutines == Workers \cup { Pruner }

\* Where a worker is about to call getConn, and where it is about to enter
\* the locked part of newConn or to call deleteConn.
ReadPcs == { "forward", "reverse" }
WritePcs == { "nc_id", "fwd_del", "rev_del" }

\* The sleep of pruneConns is over.
SweepDue == now >= pruneLast + pruneInterval

\* Whether goroutine g is about to do something under connsL.
NeedsRLock(g) == g \in Workers /\ wk[g].pc \in ReadPcs
NeedsLock(g) ==
  \/ g \in Workers /\ wk[g].pc \in WritePcs
  \/ g = Pruner /\ SweepDue

Holds(g) == connsL.w = g \/ g \in connsL.r

\* connsL.RLock() of getConn
RLock(w) ==
  /\ NeedsRLock(w) /\ ~Holds(w)
  /\ connsL.w = 0
  /\ connsL' = [connsL EXCEPT !.r = @ \cup {w}]
  /\ UNCHANGED lvars

\* The deferred connsL.RUnlock() of getConn
RUnlock(w) ==
  /\ w \in connsL.r /\ ~NeedsRLock(w)
  /\ connsL' = [connsL EXCEPT !.r = @ \ {w}]
  /\ UNCHANGED lvars

\* connsL.Lock() of newConn, deleteConn and pruneConnsSince
Lock(g) ==
  /\ NeedsLock(g) /\ ~Holds(g)
  /\ connsL.w = 0 /\ connsL.r = {}
  /\ connsL' = [connsL EXCEPT !.w = g]
  /\ UNCHANGED lvars

\* The deferred connsL.Unlock() of newConn, deleteConn and pruneConnsSince
Unlock(g) ==
  /\ connsL.w = g /\ ~NeedsLock(g)
  /\ connsL' = [connsL EXCEPT !.w = 0]
  /\ UNCHANGED lvars

\* getConn between RLock and RUnlock
UnderRLock(w) ==
  /\ w \in connsL.r
  /\ \/ handleForward(w)
     \/ handleReverse(w)

\* newConn and deleteConn between Lock and Unlock
UnderLock(w) ==
  /\ connsL.w = w
  /\ \/ newConnSave(w)
     \/ forwardFail(w)
     \/ reverseFail(w)

\* pruneConnsSince between Lock and Unlock
Sweeping == connsL.w = Pruner /\ PruneConns

\* One handshake, and a forward and a reverse query for its conn.
LockPackets ==
  FirstHandshake
    \cup { Packet(QName(<< <<"0">>, Payload, FirstId >>)),
           Packet(QName(<< <<"0">>, FirstId >>)) }

\* What a worker does without connsL.
Unlocked(w) ==
  /\ ~Holds(w)
  /\ \/ Receive(w, LockPackets)
     \/ handleNewConn(w)
     \/ newConnDial(w)
     \/ forwardLock(w)
     \/ forwardWrite(w)
     \/ reverseLock(w)
     \/ reverseRead(w)
     \/ updateLastLock(w)
     \/ updateLastSet(w)
     \/ answerAdd(w)
     \/ answerCached(w)

NextLocks ==
  \/ Tick
  \/ \E k \in 1..MaxConns : closeConn(k)
  \/ Sweeping
  \/ \E g \in Goroutines : Lock(g) \/ Unlock(g)
  \/ \E w \in Workers :
       \/ RLock(w)
       \/ RUnlock(w)
       \/ UnderRLock(w)
       \/ UnderLock(w)
       \/ Unlocked(w)

SpecLocks == Init /\ [][NextLocks]_vars

(***************************************************************************)
(* Properties                                                              *)
(***************************************************************************)
\* The counter of a worker's forward or reverse query.
Ctr(w) == ParseUint(Labels(w)[1], 36)

\* Worker w takes a step from pc.
StepFrom(w, pc) == wk[w].pc = pc /\ wk'[w] # wk[w]

\* A log of counters is 0, 1, 2, ... in that order.
InOrder(log) == \A i \in 1..Len(log) : log[i] = i - 1

\* C1: for every conn and every interleaving of the forward workers, the
\* counters of the requests written upstream are 0, 1, 2, ... in that
\* order; a forward request whose counter is not nextFwd writes nothing,
\* leaves nextFwd as it is and is answered NXDOMAIN, and the request with
\* the expected counter is accepted whenever it gets the lock.
C1_ForwardInOrder ==
  [][ /\ \A k \in 1..MaxConns : InOrder(fwdLog'[k])
      /\ \A w \in Workers :
           StepFrom(w, "fwd_lock") =>
             IF Ctr(w) = heap[wk[w].c].nextFwd
             THEN /\ wk'[w].pc = "fwd_upd1"
                  /\ heap'[wk[w].c].nextFwd = heap[wk[w].c].nextFwd + 1
             ELSE /\ wk'[w] = IdleWorker
                  /\ sent' = NXDomain
                  /\ heap' = heap
                  /\ fwdLog' = fwdLog
      /\ \A w \in Workers :
           StepFrom(w, "fwd_write") =>
             /\ Ctr(w) = Len(fwdLog[wk[w].c])
             /\ fwdLog'[wk[w].c] = Append(fwdLog[wk[w].c], Ctr(w)) ]_vars

\* Two requests were written in order while a duplicate of the first waits
\* for the lock.
C1_Witness ==
  \E w \in Workers :
    /\ wk[w].pc = "fwd_lock"
    /\ Ctr(w) = 0
    /\ fwdLog[wk[w].c] = << 0, 1 >>

\* C2: for every conn and every interleaving of the reverse workers, the
\* counters of the requests that read from upstream are 0, 1, 2, ... in
\* that order; a reverse request whose counter is not nextRev reads nothing
\* and leaves nextRev as it is; the forward counter plays no part: it is
\* neither consulted nor changed.
C2_ReverseInOrder ==
  [][ /\ \A k \in 1..MaxConns : InOrder(revLog'[k])
      /\ \A w \in Workers :
           StepFrom(w, "rev_lock") =>
             /\ heap'[wk[w].c].nextFwd = heap[wk[w].c].nextFwd
             /\ IF Ctr(w) = heap[wk[w].c].nextRev
                THEN /\ wk'[w].pc \in {"rev_upd1", "rev_del"}
                     /\ heap'[wk[w].c].nextRev = heap[wk[w].c].nextRev + 1
                ELSE /\ wk'[w] = IdleWorker
                     /\ sent' = NXDomain
                     /\ heap' = heap
                     /\ revLog' = revLog
      /\ \A w \in Workers :
           StepFrom(w, "rev_read") =>
             /\ Ctr(w) = Len(revLog[wk[w].c])
             /\ revLog'[wk[w].c] = Append(revLog[wk[w].c], Ctr(w)) ]_vars

\* Two requests have read in order, the reverse counter is ahead of the
\* forward counter, and a duplicate of the first request waits for the lock.
C2_Witness ==
  \E w \in Workers :
    /\ wk[w].pc = "rev_lock"
    /\ Ctr(w) = 0
    /\ revLog[wk[w].c] = << 0, 1 >>
    /\ heap[wk[w].c].nextRev = 2
    /\ heap[wk[w].c].nextFwd = 0

\* The conns newConn has put in the map so far.
Saved == { k \in 1..MaxConns : origin[k] # << >> }

\* C3: of the handshakes carrying one timestamp only the first makes a
\* session: no two conns come from the same timestamp, whatever the
\* interleaving of the workers.
C3_OneSessionPerTimestamp ==
  \A j, k \in Saved : origin[j] = origin[k] => j = k

\* C4: the ids newConn returns are strictly increasing numbers in base 36,
\* hence no id is returned twice, also by concurrent calls.
C4_IdsIncrease ==
  \A i, j \in 1..Len(issued) :
    i < j => /\ ParseUint(issued[i], 36) # ParseErr
             /\ ParseUint(issued[i], 36) < ParseUint(issued[j], 36)

\* Two calls of newConn that were in progress at the same time have
\* returned "z" and "10".
C4_Witness ==
  /\ issued = << << "z" >>, << "1", "0" >> >>
  /\ \E id \in DOMAIN conns : conns[id] = 2 /\ id = << "z" >>

\* The id label of a worker's forward or reverse query.
Id(w) == Labels(w)[Len(Labels(w))]

\* A read that returned no bytes and an error that is no timeout.
ReadFailed(res) == Len(res.buf) = 0 /\ res.err \notin {"nil", "timeout"}

\* C5: when the upstream write of a forward handler or the upstream read of
\* a reverse handler fails, the conn has left the map by the time the
\* handler returns.
C5_FailureDeletes ==
  [][ \A w \in Workers :
        /\ StepFrom(w, "fwd_del") => Id(w) \notin DOMAIN conns'
        /\ (StepFrom(w, "rev_upd2") /\ ReadFailed(wk[w].res))
             => Id(w) \notin DOMAIN conns' ]_vars

\* C6: when deleteConn(id) returns, id is not in the map and closeConn has
\* been started for its conn; deleteConn of an id that is not in the map
\* changes nothing; Close is called at most once per conn; and every conn
\* closeConn was started for is closed in the end.
C6_DeleteCloses ==
  /\ [][ \A w \in Workers :
           StepFrom(w, "fwd_del") =>
             /\ Id(w) \notin DOMAIN conns'
             /\ Id(w) \in DOMAIN conns => wk[w].c \in closing'
             /\ Id(w) \notin DOMAIN conns =>
                  conns' = conns /\ closing' = closing ]_vars
  /\ [](\A k \in 1..MaxConns : closeCount[k] <= 1)
  /\ \A k \in 1..MaxConns :
       (k \in closing) ~> (k <= Len(heap) /\ heap[k].c = "closed")

\* A worker whose write failed is about to call deleteConn for a conn the
\* pruner has already deleted and closeConn has already closed.
C6_Witness ==
  \E w \in Workers :
    /\ wk[w].pc = "fwd_del"
    /\ Id(w) \notin DOMAIN conns
    /\ closeCount[wk[w].c] = 1

\* Worker w finds the name of datagram p, a forward or reverse query, in
\* the answer cache, and will answer with the TXT record stored there.
AnswersFromCache(w, p) ==
  /\ handlePacket(w, p)
  /\ Accepted(p)
  /\ Len(Split(ToLower(TrimSuffix(p.name, domainName)))) \in {2, 3}
  /\ wk'[w].pc = "cached"

\* C7 as stated: a forward or reverse query naming an id that is not in the
\* map is answered NXDOMAIN, never with a TXT record.
C7_UnknownIdNXDomain ==
  [][ \A w \in Workers :
        /\ StepFrom(w, "idle") =>
             \A p \in ServerPackets :
               IdOf(ToLower(TrimSuffix(p.name,
               domainName))) \notin DOMAIN conns
                 => ~AnswersFromCache(w, p)
        /\ (StepFrom(w, "forward") /\ Id(w) \notin DOMAIN conns)
             => wk'[w] = IdleWorker /\ sent' = NXDomain
        /\ (StepFrom(w, "reverse") /\ Id(w) \notin DOMAIN conns)
             => wk'[w] = IdleWorker /\ sent' = NXDomain ]_vars

\* C7 as amended: a forward query, or a reverse query that is not answered
\* from the answer cache, whose id is not in the map when its handler looks
\* it up is answered NXDOMAIN, and the handler does nothing else.
C7_HandlerMissNXDomain ==
  [][ \A w \in Workers :
        /\ (StepFrom(w, "forward") /\ Id(w) \notin DOMAIN conns)
             => /\ wk'[w] = IdleWorker
                /\ sent' = NXDomain
                /\ heap' = heap /\ fwdLog' = fwdLog
        /\ (StepFrom(w, "reverse") /\ Id(w) \notin DOMAIN conns)
             => /\ wk'[w] = IdleWorker
                /\ sent' = NXDomain
                /\ heap' = heap /\ revLog' = revLog ]_vars

\* A reverse query that missed the answer cache is about to look up the id
\* of a conn that was deleted and closed.
C7_Witness ==
  \E w \in Workers :
    /\ wk[w].pc = "reverse"
    /\ Id(w) = FirstId
    /\ Id(w) \notin DOMAIN conns
    /\ \E k \in 1..Len(heap) : origin[k] # << >> /\ closeCount[k] = 1

\* A step of the pruner: only PruneConns changes pruneLast.
Swept == pruneLast' # pruneLast

\* C8: a sweep with marker M = pruneLast removes from the map exactly the
\* conns whose last is strictly earlier than M and starts closeConn for
\* them; no conn that is in the map after the sweep has last < M.
C8_SweepRemovesIdle ==
  [][ Swept =>
        /\ DOMAIN conns' =
             { id \in DOMAIN conns : ~(heap[conns[id]].last < pruneLast) }
        /\ \A id \in DOMAIN conns' : conns'[id] = conns[id]
        /\ closing' =
             closing \cup { conns[id] : id \in (DOMAIN conns) \ DOMAIN conns' }
        /\ \A id \in DOMAIN conns' : heap'[conns'[id]].last >= pruneLast
      ]_vars

\* After the second sweep: a conn whose only activity, a forward request
\* answered with an empty TXT record, was before the marker is being closed.
C8_Witness ==
  /\ pruneLast = 3
  /\ sent = TXT(<< >>)
  /\ \E k \in closing :
       /\ heap[k].last = 1
       /\ fwdLog[k] = << 0 >>
       /\ heap[k].nextRev = 0
  /\ \A w \in Workers : wk[w].pc = "idle"

\* The name of each datagram, stripped of the domain and in lower case,
\* and the number of its labels.
Key ==
  [p \in HandshakePackets \cup ForwardPackets \cup ReversePackets
           \cup ServerPackets |-> ToLower(TrimSuffix(p.name, domainName))]

NumLabels == [p \in DOMAIN Key |-> Len(Split(Key[p]))]

\* A reverse reply is in the answer cache once it is sent; an entry does
\* not change while it is in the cache; a query whose name is in the cache
\* is answered with the entry, and neither receiving it nor answering it
\* reads from a conn or changes one (nextRev and last included).
CacheAnswers ==
  /\ \A w \in Workers :
       StepFrom(w, "respond") =>
         /\ sent'.rcode = "NOERROR"
         /\ wk[w].qn \in DOMAIN ansCache'
         /\ ansCache'[wk[w].qn] = sent'
  /\ \A q \in (DOMAIN ansCache) \cap (DOMAIN ansCache') :
       ansCache'[q] = ansCache[q]
  /\ \A w \in Workers :
       StepFrom(w, "idle") =>
         \A p \in FirstHandshake \cup ReversePackets :
           (Key[p] \in DOMAIN ansCache /\ Accepted(p) /\ handlePacket(w, p))
             => /\ wk'[w] = [IdleWorker EXCEPT !.pc = "cached", !.qn = Key[p],
                                               !.reply = ansCache[Key[p]]]
                /\ heap' = heap /\ revLog' = revLog /\ conns' = conns
  /\ \A w \in Workers :
       StepFrom(w, "cached") =>
         /\ sent' = wk[w].reply
         /\ wk'[w] = IdleWorker
         /\ heap' = heap /\ revLog' = revLog /\ conns' = conns

\* C9 as stated: once a reverse query has been answered with a TXT reply,
\* the reply is in the answer cache under the stripped, lowercased name and
\* stays there, so that every later query with that name is answered with
\* it, without a read and without a change of nextRev or last.
C9_CachedReverseAnswer ==
  [][ /\ CacheAnswers
      /\ \A q \in DOMAIN ansCache : q \in DOMAIN ansCache' ]_vars

\* C9 as amended: the same for every later query that arrives while the
\* entry is in the answer cache, which holds ansCacheSize entries and evicts
\* when a new name is added to a full cache.
C9_CachedWhileResident ==
  [][ /\ CacheAnswers
      /\ Cardinality(DOMAIN ansCache') <= ansCacheSize
      /\ \A q \in DOMAIN ansCache :
           q \in DOMAIN ansCache' \/ Cardinality(DOMAIN ansCache) = ansCacheSize
    ]_vars

\* A query found the cached answer to the first reverse query, which had
\* data, and is about to be answered with it; the conn is deleted and closed.
C9_Witness ==
  /\ conns = [i \in {} |-> 0]
  /\ \E k \in 1..Len(heap) : revLog[k] = << 0 >> /\ heap[k].c = "closed"
  /\ << "0", ".", "z" >> \in DOMAIN ansCache
  /\ \E w \in Workers :
       /\ wk[w].pc = "cached"
       /\ wk[w].reply = TXT(<< "d", "w" >>)

\* C10: every key of the answer cache has two labels, and an accepted query
\* of one or three labels goes to handleNewConn or handleForward whatever
\* the cache holds.
C10_CacheOnlyTwoLabels ==
  [][ /\ ansCache' # ansCache =>
           \A q \in DOMAIN ansCache' : Len(Split(q)) = 2
      /\ \A w \in Workers :
           StepFrom(w, "idle") =>
             \A p \in ServerPackets :
               (NumLabels[p] \in {1, 3} /\ handlePacket(w, p))
                 => /\ wk'[w].pc = IF NumLabels[p] = 1 THEN "newconn"
                                                       ELSE "forward"
                    /\ wk'[w].qn = Key[p]
                    /\ ansCache' = ansCache ]_vars

\* The cache holds an answer while one goroutine is entering
\* handleNewConn and the other handleForward: one of the two queries came
\* after the answer was cached.
C10_Witness ==
  /\ DOMAIN ansCache # {}
  /\ \E w1, w2 \in Workers :
       /\ wk[w1].pc = "newconn"
       /\ wk[w2].pc = "forward"

\* C11: once Client has received the first error from done it returns
\* without waiting for the other pump: it is never left waiting on an empty
\* done channel, as it is when the reverse pump has failed and the forward
\* pump is blocked in its read of stdin.
C11_ReturnsOnFirstError ==
  (/\ client.main = "deferred"
   /\ client.b.pc = "returned"
   /\ client.f.pc = "read"
   /\ ~client.panic) => done # << >>

\* proxyBack takes the step that follows an empty reply.
EmptyReply == client.b.pc = "query" /\ client'.b.pc = "jitter"

\* proxyBack has written a non-empty reply to stdout.
DataWritten == client.b.pc = "write" /\ client'.b.pc = "poll"

\* C12: after an empty reply the poll interval is larger than before as
\* long as it was below pollMax, never above pollMax, and equal to pollMax
\* once it has reached it; after a non-empty reply it is pollMin.
C12_PollBackoff ==
  [][ /\ EmptyReply =>
           IF client.pollCur < client.pollMax
           THEN /\ client'.pollCur > client.pollCur
                /\ client'.pollCur <= client.pollMax
           ELSE client'.pollCur = client.pollMax
      /\ DataWritten => client'.pollCur = pollMin ]_vars

\* The response handlePacket owes for a goroutine that returns from pc: the
\* base64 of the bytes its handler returned in one TXT answer, the cached
\* answer, or NXDOMAIN after nil bytes or an error.
Owed(w) ==
  CASE wk[w].pc = "respond" ->
         [rcode |-> "NOERROR", txt |-> EncodeToString(wk[w].res.buf)]
    [] wk[w].pc = "fwd_upd2" ->
         [rcode |-> "NOERROR", txt |-> << >>]
    [] wk[w].pc = "nc_id" ->
         [rcode |-> "NOERROR",
          txt |-> EncodeToString(Bytes(FormatUint(connNextID)))]
    [] wk[w].pc = "cached" -> wk[w].reply
    [] OTHER -> [rcode |-> "NXDOMAIN", txt |-> << >>]

\* C13: a goroutine of handlePacket that got past validation ends with one
\* response: NOERROR with the base64 of the bytes the handler returned (the
\* id, nothing after a forward write, the bytes read or nothing after a
\* reverse read without error or with a timeout), NXDOMAIN when the handler
\* returned nil or an error; no response is sent in any other step.
C13_OneResponse ==
  [][ /\ \A w \in Workers :
           /\ (wk[w].pc # "idle" /\ wk'[w].pc = "idle") => sent' = Owed(w)
           /\ StepFrom(w, "rev_upd2") =>
                wk'[w].pc = IF ReadFailed(wk[w].res) THEN "idle"
                                                     ELSE "respond"
           /\ \A pc \in { "respond", "fwd_upd2", "nc_id", "cached" } :
                StepFrom(w, pc) => wk'[w].pc = "idle"
      /\ sent' # sent =>
           \E w \in Workers : wk[w].pc # "idle" /\ wk'[w].pc = "idle" ]_vars

\* Every kind of response has been owed and sent: the last one is the
\* base64 of a byte read from the upstream, after an id was handed out and
\* a forward query was written.
C13_Witness ==
  /\ sent = [rcode |-> "NOERROR", txt |-> << "d", "w" >>]
  /\ issued # << >>
  /\ \E k \in 1..MaxConns : fwdLog[k] = << 0 >> /\ revLog[k] = << 0 >>
  /\ \A w \in Workers : wk[w].pc = "idle"

\* The number of labels left of the parent domain: none when the name is
\* the parent domain itself.
LabelsLeft(p) ==
  IF Stripped(p) = << >> THEN 0 ELSE Len(Split(Stripped(p)))

\* C14: a query of the domain with no label or with four or more labels
\* left of the parent domain is dropped: handling it starts no handler and
\* changes nothing.
C14_Dropped ==
  [][ \A w \in Workers :
        StepFrom(w, "idle") =>
          \A p \in HandshakePackets \cup BadPackets :
            (HasSuffix(p.name, domainName) /\ LabelsLeft(p) \notin 1..3)
              => ~handlePacket(w, p) ]_vars

\* C15: after a failed read of stdin proxyForward signals the error on done
\* once, any bytes of that read having been sent before, and is over: once
\* it has signalled it reads nothing, asks nothing and signals nothing.
C15_SignalsOnceAndStops ==
  [][ /\ (client.f.pc = "signal" /\ client.f.buf # << >>)
           => client.fwd >= Len(client.f.buf)
      /\ client.f.signals >= 1 =>
           /\ client'.f = client.f
           /\ stdio'.reads = stdio.reads
           /\ net'["proxyForward"].req = net["proxyForward"].req
           /\ (Len(done') > Len(done) => done'[Len(done')] # "read") ]_vars

\* C16 as stated: once the dial of a timestamp has failed, every later
\* request with that timestamp is answered NXDOMAIN by handleNewConn itself,
\* before any dial and without a new conn.
C16_RefusedForEver ==
  [][ \A w \in Workers :
        (StepFrom(w, "newconn") /\ Labels(w)[1] \in refused)
          => /\ wk'[w] = IdleWorker
             /\ sent' = NXDomain
             /\ heap' = heap /\ conns' = conns ]_vars

\* C16 as amended: a failed dial adds no conn and leaves the timestamp in
\* seenTSCache, and a request whose timestamp is in seenTSCache when
\* handleNewConn looks it up is answered NXDOMAIN before any dial and
\* without a new conn.
C16_RefusedWhileResident ==
  [][ \A w \in Workers :
        /\ (StepFrom(w, "nc_add") /\ wk'[w].pc = "idle")
             => /\ Labels(w)[1] \in seenTSCache'
                /\ sent' = NXDomain
                /\ heap' = heap /\ conns' = conns
        /\ (StepFrom(w, "newconn") /\ Labels(w)[1] \in seenTSCache)
             => /\ wk'[w] = IdleWorker
                /\ sent' = NXDomain
                /\ heap' = heap /\ conns' = conns ]_vars

\* A request is being handled whose timestamp was refused before and is
\* still in seenTSCache; no conn was made.
C16_Witness ==
  /\ heap = << >>
  /\ \E w \in Workers :
       /\ wk[w].pc = "newconn"
       /\ Labels(w)[1] \in refused \cap seenTSCache

\* Whether a conn is at rest: no goroutine is making it, using it or
\* closing it.
AtRest(k) ==
  /\ k \notin closing
  /\ \A w \in Workers : wk[w].c # k

\* C17: a conn at rest is in the map exactly if its upstream socket is open
\* and has not failed: no conn in the map has a closed or failed upstream,
\* and no socket is open whose conn has left the map.
C17_InTableIffOpen ==
  \A k \in 1..Len(heap) :
    AtRest(k) =>
      ((\E id \in DOMAIN conns : conns[id] = k)
         <=> (heap[k].c = "open" /\ k \notin broken))

\* A sweep of the pruner: pruneConnsSince compares c.last of every conn in
\* the map with its marker.
Sweep == pruneLast' # pruneLast

\* C18: c.last is written and read only under c.timeL: a write is the step
\* of the worker that holds timeL, and the pruner compares c.last of no conn
\* whose timeL a handler holds for its update.
C18_LastUnderTimeL ==
  [][ /\ \A k \in 1..Len(heap) :
           heap'[k].last # heap[k].last
             => /\ heap[k].timeL \in Workers
                /\ wk[heap[k].timeL].c = k
                /\ wk[heap[k].timeL].pc \in UpdatePcs
      /\ Sweep => \A id \in DOMAIN conns : heap[conns[id]].timeL = 0 ]_vars

\* s is the beginning of t.
IsPrefix(s, t) == Len(s) <= Len(t) /\ SubSeq(t, 1, Len(s)) = s

\* proxyForward and proxyBack between two of their requests.
ForwardAtRest == client.f.pc \in { "read", "signal" }
BackAtRest == client.b.pc \in { "poll", "write", "jitter" }

\* C19: with every query delivered to the server once and answered, what
\* the server has written upstream is the beginning of what the client has
\* read from stdin, what the client has written to stdout is the beginning
\* of what the server has read from upstream, and between requests the
\* counters of the pumps are nextFwd and nextRev of the client's conn.
C19_EndToEnd ==
  /\ IsPrefix(upstream.wr, stdio.in)
  /\ IsPrefix(stdio.out, upstream.rd)
  /\ \A id \in DOMAIN conns :
       id = client.id =>
         /\ ForwardAtRest => client.f.qn = heap[conns[id]].nextFwd
         /\ BackAtRest => client.b.qn = heap[conns[id]].nextRev

\* Both directions have carried all they can: two bytes of stdin are
\* upstream and two bytes of the upstream are on stdout, in order.
C19_Witness ==
  /\ upstream.wr = << 104, 105 >> /\ stdio.in = upstream.wr
  /\ upstream.rd = << 119, 120 >> /\ stdio.out = upstream.rd
  /\ client.id \in DOMAIN conns
  /\ ForwardAtRest /\ BackAtRest

\* C20: whenever proxyBack is about to draw its jitter, rand.Int63n gets a
\* positive pollCur, so the process never panics there (here for a positive
\* -poll-max, the case of the default).
C20_JitterPositive ==
  client.pollMax > 0 =>
    /\ client.b.pc = "jitter" => client.pollCur > 0
    /\ ~client.panic

\* A conn no forward or reverse request has been accepted for: both
\* counters are as newConn left them.
Unused(k) == heap[k].nextFwd = 0 /\ heap[k].nextRev = 0

\* C21: a conn keeps the zero last newConn leaves it with until a request
\* is accepted for it, and the first sweep that finds it in the map removes
\* it and starts closeConn for it, whatever the marker of the sweep.
C21_UnusedSweptAtOnce ==
  [][ /\ \A k \in 1..Len(heap') : (Unused(k))' => heap'[k].last = 0
      /\ Sweep =>
           \A id \in DOMAIN conns :
             Unused(conns[id]) => /\ id \notin DOMAIN conns'
                                  /\ conns[id] \in closing' ]_vars

\* The one sweep so far, with the marker the pruner started with, has
\* removed a conn that was made no earlier than that marker and never used,
\* while no upstream write or read has failed.
C21_Witness ==
  /\ pruneLast = 2 /\ now = 2
  /\ broken = {}
  /\ \E k \in closing : Unused(k) /\ origin[k] # << >>
  /\ \A w \in Workers : wk[w].pc = "idle"

\* The holder of a mutex of the model, as a set: empty when it is free.
Holder(l) == IF l = 0 THEN {} ELSE {l}

\* The goroutines that keep g from taking the lock it is about to take: the
\* holder of c.nextFwdL, c.nextRevL or c.timeL, the writer of connsL for a
\* reader, the writer and the readers of connsL for a writer.  A goroutine
\* that holds connsL takes no lock before it has released it.
Waits(g) ==
  IF Holds(g) THEN {}
  ELSE IF g \in Workers /\ wk[g].pc = "fwd_lock"
  THEN Holder(heap[wk[g].c].nextFwdL)
  ELSE IF g \in Workers /\ wk[g].pc = "rev_lock"
  THEN Holder(heap[wk[g].c].nextRevL)
  ELSE IF g \in Workers /\ wk[g].pc \in UpdatePcs
  THEN Holder(heap[wk[g].c].timeL) \ {g}
  ELSE IF NeedsRLock(g)
  THEN Holder(connsL.w)
  ELSE IF NeedsLock(g)
  THEN Holder(connsL.w) \cup connsL.r
  ELSE {}

\* The locks of the conns are held by workers inside the part of the
\* handler they protect: nextFwdL by a forward worker, nextRevL by a reverse
\* worker, timeL by a worker in updateLast.
HeldInside ==
  \A k \in 1..Len(heap) :
    /\ \A w \in Holder(heap[k].nextFwdL) :
         /\ wk[w].c = k
         /\ wk[w].pc \in { "fwd_upd1", "fwd_write", "fwd_upd2", "fwd_del" }
    /\ \A w \in Holder(heap[k].nextRevL) :
         /\ wk[w].c = k
         /\ wk[w].pc \in { "rev_upd1", "rev_read", "rev_upd2", "rev_del" }
    /\ \A w \in Holder(heap[k].timeL) :
         /\ wk[w].c = k
         /\ wk[w].pc \in UpdatePcs

\* C22: no set of goroutines is such that each of them waits for a lock
\* another of them holds, and every lock of a conn is held by a worker that
\* is on its way to releasing it, so a forward and a reverse worker never
\* wait for each other's counter lock; a worker that holds connsL is in
\* getConn, newConn or deleteConn or has just left it.
C22_NoDeadlock ==
  /\ \A S \in SUBSET Goroutines :
       S # {} => \E g \in S : Waits(g) \cap S = {}
  /\ HeldInside
  /\ \A w \in Workers :
       Holds(w) =>
         wk[w].pc \in ReadPcs \cup WritePcs \cup { "idle", "fwd_lock", "rev_lock" }

\* All locks are in use: a forward worker holds nextFwdL and timeL of the
\* conn, a reverse worker holds its nextRevL and waits for timeL, and the
\* pruner waits for connsL, which a third goroutine cannot hold here, so
\* the pruner holds it.
C22_Witness ==
  /\ connsL.w = Pruner
  /\ \E w1, w2 \in Workers :
       /\ wk[w1].pc = "fwd_upd1" /\ wk[w2].pc = "rev_upd1"
       /\ wk[w1].c = wk[w2].c
       /\ heap[wk[w1].c].nextFwdL = w1
       /\ heap[wk[w1].c].nextRevL = w2
       /\ heap[wk[w1].c].timeL = w1
       /\ Waits(w2) = {w1}

====
